---- MODULE Spec2Model ----
(***************************************************************************)
(* A model of screener.py, the blue-chip dividend stock screener:          *)
(* get_stock_data (the metric deriver), screen_stock (the rule evaluator)  *)
(* and screen_stocks (the per-ticker loop).                                *)
(*                                                                         *)
(* Numbers.  Python floats are modelled as fixed-point integers with three *)
(* decimal places: the real x is the integer x * Scale, so 2.5 is 2500 and *)
(* the fraction 0.4 is 400.  Every conversion of the source (x100, /100,   *)
(* the leverage product, the fifth root) is carried out on that            *)
(* representation.  NaN and infinities are not modelled.                   *)
(*                                                                         *)
(* Optional values.  None is the empty tuple and a present value v is the  *)
(* one-element tuple <<v>>.                                                *)
(*                                                                         *)
(* Strings.  A string on which the source runs a substring test is a tuple *)
(* of its characters, so that `needle in text' is a real search.           *)
(***************************************************************************)
EXTENDS Integers, Sequences, FiniteSets

VARIABLES
    tickers,    \* screen_stocks: the input list of ticker symbols
    criteria,   \* screen_stocks: the ScreeningCriteria of the run
    idx,        \* screen_stocks: position of the for loop in tickers
    pc,         \* screen_stocks: the statement the run is at
    info,       \* get_stock_data: the provider's answer for the current ticker
    analysis,   \* the StockAnalysis of the current ticker (None or <<record>>)
    locals,     \* screen_stock: high_leverage_sector, max_payout, min_coverage
    results,    \* screen_stocks: the accumulating list of rows
    df,         \* screen_stocks: the returned table (None until returned)
    log,        \* history: the steps taken, each with its position in tickers
    watchfile,  \* the text of the watchlist file (None while not written)
    loaded      \* load_watchlist: the returned list (None until returned)

vars ==
    << tickers, criteria, idx, pc, info, analysis, locals, results, df, log,
       watchfile, loaded >>

\* the watchlist file and the list read from it
watch == << watchfile, loaded >>

-----------------------------------------------------------------------------
(* Optional values and Python truthiness *)

None == << >>

Some(v) == << v >>

IsNone(o) == o = << >>

Val(o) == o[1]

\* `if x:' for an Optional[float]: false for None and for 0.0
Truthy(o) == o # << >> /\ o[1] # 0

-----------------------------------------------------------------------------
(* Fixed-point arithmetic *)

Scale == 10 * 10 * 10

One == Scale

Hundred == 100 * Scale

Abs(x) == IF x < 0 THEN -x ELSE x

Sgn(x) == IF x < 0 THEN -1 ELSE IF x > 0 THEN 1 ELSE 0

\* a * b
FMul(a, b) == Sgn(a) * Sgn(b) * ((Abs(a) * Abs(b)) \div Scale)

\* a / b, b # 0
FDiv(a, b) == Sgn(a) * Sgn(b) * ((Abs(a) * Scale) \div Abs(b))

\* a * b rounded up, for a, b >= 0
CeilMul(a, b) == (a * b + Scale - 1) \div Scale

\* x ** 5 rounded up, for x >= 0: exact at 0 and at 1, so that the root of an
\* unchanged dividend is exactly 1
Pow5(x) == CeilMul(CeilMul(CeilMul(CeilMul(x, x), x), x), x)

\* the largest x in lo..hi with Pow5(x) <= r, given Pow5(lo) <= r
RECURSIVE Root5In(_, _, _)
Root5In(r, lo, hi) ==
    IF lo >= hi THEN lo
    ELSE LET mid == (lo + hi + 1) \div 2
         IN  IF Pow5(mid) <= r THEN Root5In(r, mid, hi) ELSE Root5In(r, lo, mid - 1)

\* r ** 0.2, for 0 <= r <= Pow5(4 * Scale)
Root5(r) == Root5In(r, 0, 4 * Scale)

RECURSIVE SeqSum(_)
SeqSum(s) == IF s = << >> THEN 0 ELSE Head(s) + SeqSum(Tail(s))

\* f"{v:.Nf}": v rounded to `decimal' places (half to even), as its digits
FormatValue(v, decimal) ==
    LET unit == IF decimal = 1 THEN 100 ELSE 10
        q == Abs(v) \div unit
        r == Abs(v) % unit
        up == (2 * r > unit) \/ (2 * r = unit /\ q % 2 = 1)
    IN  [digits |-> Sgn(v) * (IF up THEN q + 1 ELSE q), decimal |-> decimal]

-----------------------------------------------------------------------------
(* Strings *)

\* Python `needle in text'
Contains(text, needle) ==
    \E i \in 1..(Len(text) - Len(needle) + 1) :
        SubSeq(text, i, i + Len(needle) - 1) = needle

\* "REIT"
STR_REIT ==
    << "R", "E", "I", "T" >>
\* "Real Estate"
STR_RealEstate ==
    << "R", "e", "a", "l", " ", "E", "s", "t", "a", "t", "e" >>
\* "Utilities"
STR_Utilities ==
    << "U", "t", "i", "l", "i", "t", "i", "e", "s" >>
\* "WARNING"
STR_WARNING ==
    << "W", "A", "R", "N", "I", "N", "G" >>
\* "AT RISK"
STR_AT_RISK ==
    << "A", "T", " ", "R", "I", "S", "K" >>
\* "Unknown"
STR_Unknown ==
    << "U", "n", "k", "n", "o", "w", "n" >>
\* "Consumer Staples"
SectorConsumerStaples ==
    << "C", "o", "n", "s", "u", "m", "e", "r", " ", "S", "t", "a", "p", "l", "e", "s" >>
\* "Utilities - Regulated Electric"
SectorRegulatedElectric ==
    << "U", "t", "i", "l", "i", "t", "i", "e", "s", " ", "-", " ", "R", "e", "g", "u", "l", "a", "t", "e", "d", " ", "E", "l", "e", "c", "t", "r", "i", "c" >>
\* "Equity REITs"
SectorEquityREITs ==
    << "E", "q", "u", "i", "t", "y", " ", "R", "E", "I", "T", "s" >>
\* "Public utilities"
SectorPublicUtilities ==
    << "P", "u", "b", "l", "i", "c", " ", "u", "t", "i", "l", "i", "t", "i", "e", "s" >>
\* "Low dividend yield: "
FlagLowYield ==
    << "L", "o", "w", " ", "d", "i", "v", "i", "d", "e", "n", "d", " ", "y", "i", "e", "l", "d", ":", " " >>
\* "YIELD TRAP WARNING: "
FlagYieldTrap ==
    << "Y", "I", "E", "L", "D", " ", "T", "R", "A", "P", " ", "W", "A", "R", "N", "I", "N", "G", ":", " " >>
\* "No dividend data"
FlagNoDividend ==
    << "N", "o", " ", "d", "i", "v", "i", "d", "e", "n", "d", " ", "d", "a", "t", "a" >>
\* "High payout ratio: "
FlagHighPayout ==
    << "H", "i", "g", "h", " ", "p", "a", "y", "o", "u", "t", " ", "r", "a", "t", "i", "o", ":", " " >>
\* "DIVIDEND AT RISK: Payout ratio "
FlagAtRisk ==
    << "D", "I", "V", "I", "D", "E", "N", "D", " ", "A", "T", " ", "R", "I", "S", "K", ":", " ", "P", "a", "y", "o", "u", "t", " ", "r", "a", "t", "i", "o", " " >>
\* "Declining dividends: "
FlagDeclining ==
    << "D", "e", "c", "l", "i", "n", "i", "n", "g", " ", "d", "i", "v", "i", "d", "e", "n", "d", "s", ":", " " >>
\* "Low interest coverage: "
FlagLowCoverage ==
    << "L", "o", "w", " ", "i", "n", "t", "e", "r", "e", "s", "t", " ", "c", "o", "v", "e", "r", "a", "g", "e", ":", " " >>
\* "High debt/equity: "
FlagHighDebt ==
    << "H", "i", "g", "h", " ", "d", "e", "b", "t", "/", "e", "q", "u", "i", "t", "y", ":", " " >>
\* "Low return on equity: "
FlagLowROE ==
    << "L", "o", "w", " ", "r", "e", "t", "u", "r", "n", " ", "o", "n", " ", "e", "q", "u", "i", "t", "y", ":", " " >>
\* "High P/E ratio: "
FlagHighPE ==
    << "H", "i", "g", "h", " ", "P", "/", "E", " ", "r", "a", "t", "i", "o", ":", " " >>
\* "; "
STR_Sep ==
    << ";", " " >>

-----------------------------------------------------------------------------
(* Data model *)

\* ScreeningCriteria(): the dataclass defaults
ScreeningCriteria ==
    [ min_dividend_yield         |-> 1500,
      max_dividend_yield         |-> 8 * Scale,
      min_dividend_years         |-> 5,
      max_payout_ratio           |-> 50 * Scale,
      max_payout_ratio_reit      |-> 85 * Scale,
      min_interest_coverage      |-> 10 * Scale,
      min_interest_coverage_reit |-> 4 * Scale,
      max_debt_to_equity         |-> 1 * Scale,
      min_roic                   |-> 12 * Scale,
      min_roe                    |-> 15 * Scale,
      max_pe_ratio               |-> 25 * Scale,
      min_expected_return        |-> 8 * Scale ]

\* StockAnalysis(ticker=, name=, sector=): every metric None, the screening
\* results at their defaults (__post_init__ turns flags None into [])
StockAnalysis(ticker, name, sector) ==
    [ ticker              |-> ticker,
      name                |-> name,
      sector              |-> sector,
      dividend_yield      |-> None,
      payout_ratio        |-> None,
      dividend_growth_5yr |-> None,
      interest_coverage   |-> None,
      debt_to_equity      |-> None,
      current_ratio       |-> None,
      roic                |-> None,
      roe                 |-> None,
      profit_margin       |-> None,
      pe_ratio            |-> None,
      forward_pe          |-> None,
      price_to_book       |-> None,
      expected_return     |-> None,
      passes_screen       |-> FALSE,
      score               |-> 0,
      flags               |-> << >> ]

-----------------------------------------------------------------------------
(* get_stock_data *)

\* `if not info or 'shortName' not in info: return None', and the outer
\* `except Exception: return None' around the provider call
FetchFails(r) == r.raises \/ IsNone(r.shortName)

\* info.get('sector', 'Unknown')
SectorOf(r) == IF IsNone(r.sector) THEN STR_Unknown ELSE Val(r.sector)

\* x = info.get(key); if x: x *= 100
TimesHundredIfTruthy(o) == IF Truthy(o) THEN Some(FMul(Val(o), Hundred)) ELSE o

\* analysis.payout_ratio
PayoutRatioOf(r) == TimesHundredIfTruthy(r.payoutRatio)

\* annual_divs = dividends.resample('YE').sum(): one total per calendar year
AnnualDivs(years) == [ y \in 1..Len(years) |-> SeqSum(years[y]) ]

\* len(dividends): the number of distributions
NumDividends(years) == SeqSum([ y \in 1..Len(years) |-> Len(years[y]) ])

\* analysis.dividend_growth_5yr; an exception in the block leaves it None
DividendGrowthOf(r) ==
    IF r.dividends.raises THEN None
    ELSE LET years == r.dividends.years
             annual_divs == AnnualDivs(years)
             n == Len(annual_divs)
         IN  IF NumDividends(years) > 0 /\ n >= 5
             THEN LET oldest == annual_divs[n - 4]
                      newest == annual_divs[n]
                  IN  IF oldest > 0
                      THEN Some(FMul(Root5(FDiv(newest, oldest)) - One, Hundred))
                      ELSE None
             ELSE None

\* analysis.debt_to_equity
DebtToEquityOf(r) ==
    IF Truthy(r.debtToEquity) THEN Some(FDiv(Val(r.debtToEquity), Hundred))
    ELSE r.debtToEquity

\* analysis.interest_coverage; an exception in the block leaves it None
InterestCoverageOf(r) ==
    LET f == r.financials
    IN  IF f.raises \/ f.missing \/ f.empty THEN None
        ELSE LET ebit == f.EBIT
                 interest == f.InterestExpense
             IN  IF Truthy(ebit) /\ Truthy(interest) /\ Val(interest) # 0
                 THEN Some(Abs(FDiv(Val(ebit), Val(interest))))
                 ELSE None

\* analysis.roic, given the already derived analysis.debt_to_equity
RoicOf(r, debt_to_equity) ==
    LET roa == r.returnOnAssets
    IN  IF Truthy(roa)
        THEN LET pct == FMul(Val(roa), Hundred)
             IN  IF Truthy(debt_to_equity)
                 THEN LET leverage_factor == One + Val(debt_to_equity)
                      IN  Some(FMul(FMul(pct, leverage_factor), 800))
                 ELSE Some(pct)
        ELSE roa

\* analysis.expected_return, given the derived yield and growth
ExpectedReturnOf(r, dividend_yield, dividend_growth_5yr) ==
    IF Truthy(dividend_yield) /\ Truthy(dividend_growth_5yr)
    THEN Some(Val(dividend_yield) + Val(dividend_growth_5yr))
    ELSE IF Truthy(dividend_yield)
         THEN IF Truthy(r.earningsGrowth)
              THEN Some(Val(dividend_yield) + FMul(Val(r.earningsGrowth), Hundred))
              ELSE None
         ELSE None

\* get_stock_data after the provider answered with a company name
get_stock_data(ticker, r) ==
    LET dy == r.dividendYield
        growth == DividendGrowthOf(r)
        de == DebtToEquityOf(r)
    IN  [ StockAnalysis(ticker, Val(r.shortName), SectorOf(r)) EXCEPT
            !.dividend_yield      = dy,
            !.payout_ratio        = PayoutRatioOf(r),
            !.dividend_growth_5yr = growth,
            !.debt_to_equity      = de,
            !.current_ratio       = r.currentRatio,
            !.interest_coverage   = InterestCoverageOf(r),
            !.roe                 = TimesHundredIfTruthy(r.returnOnEquity),
            !.roic                = RoicOf(r, de),
            !.profit_margin       = TimesHundredIfTruthy(r.profitMargins),
            !.pe_ratio            = r.trailingPE,
            !.forward_pe          = r.forwardPE,
            !.price_to_book       = r.priceToBook,
            !.expected_return     = ExpectedReturnOf(r, dy, growth) ]

-----------------------------------------------------------------------------
(* screen_stock *)

\* A flag string: a fixed text followed (for most flags) by a formatted number.
\* The formatted number holds digits, a sign and a point only.
Flag(text, v, decimal) == [text |-> text, value |-> Some(FormatValue(v, decimal))]

PlainFlag(text) == [text |-> text, value |-> None]

\* the outcome of one check: what it adds to score and what it appends to flags
Outcome(points, newflags) == [score |-> points, flags |-> newflags]

is_reit(sector) == Contains(sector, STR_REIT) \/ Contains(sector, STR_RealEstate)

is_utility(sector) == Contains(sector, STR_Utilities)

\* mutant of high_leverage_sector: the utilities are forgotten
high_leverage_sector_reit_only(sector) == is_reit(sector)

high_leverage_sector(sector) == is_reit(sector) \/ is_utility(sector)

\* mutant of YieldCheck: a missing yield is read as a yield of zero
YieldCheckAbsentAsZero(a, c) ==
    LET y == IF IsNone(a.dividend_yield) THEN 0 ELSE Val(a.dividend_yield)
    IN  IF y < c.min_dividend_yield
        THEN Outcome(0, << Flag(FlagLowYield, y, 2) >>)
        ELSE IF y > c.max_dividend_yield
             THEN Outcome(0, << Flag(FlagYieldTrap, y, 2) >>)
             ELSE Outcome(2, << >>)

\* --- Dividend Yield Check ---
YieldCheck(a, c) ==
    IF Truthy(a.dividend_yield)
    THEN LET y == Val(a.dividend_yield)
         IN  IF y < c.min_dividend_yield
             THEN Outcome(0, << Flag(FlagLowYield, y, 2) >>)
             ELSE IF y > c.max_dividend_yield
                  THEN Outcome(0, << Flag(FlagYieldTrap, y, 2) >>)
                  ELSE Outcome(2, << >>)
    ELSE Outcome(0, << PlainFlag(FlagNoDividend) >>)

\* max_payout, assigned only when the payout check runs
MaxPayout(a, c) ==
    IF Truthy(a.payout_ratio)
    THEN Some(IF high_leverage_sector(a.sector) THEN c.max_payout_ratio_reit
              ELSE c.max_payout_ratio)
    ELSE None

\* mutant of PayoutCheck: the > 90 test comes before the ceiling test
PayoutCheckRiskFirst(a, c) ==
    IF Truthy(a.payout_ratio)
    THEN LET p == Val(a.payout_ratio)
             max_payout == Val(MaxPayout(a, c))
         IN  IF p > 90 * Scale
             THEN Outcome(0, << Flag(FlagAtRisk, p, 1) >>)
             ELSE IF p > max_payout
                  THEN Outcome(0, << Flag(FlagHighPayout, p, 1) >>)
                  ELSE Outcome(2, << >>)
    ELSE Outcome(0, << >>)

\* --- Payout Ratio Check ---
PayoutCheck(a, c) ==
    IF Truthy(a.payout_ratio)
    THEN LET p == Val(a.payout_ratio)
             max_payout == Val(MaxPayout(a, c))
         IN  IF p > max_payout
             THEN Outcome(0, << Flag(FlagHighPayout, p, 1) >>)
             ELSE IF p > 90 * Scale
                  THEN Outcome(0, << Flag(FlagAtRisk, p, 1) >>)
                  ELSE Outcome(2, << >>)
    ELSE Outcome(0, << >>)

\* --- Dividend Growth Check ---
GrowthCheck(a, c) ==
    IF Truthy(a.dividend_growth_5yr)
    THEN LET g == Val(a.dividend_growth_5yr)
         IN  IF g > 5 * Scale
             THEN Outcome(IF g > 10 * Scale THEN 3 ELSE 2, << >>)
             ELSE IF g < 0
                  THEN Outcome(0, << Flag(FlagDeclining, g, 1) >>)
                  ELSE Outcome(0, << >>)
    ELSE Outcome(0, << >>)

\* min_coverage, assigned only when the interest coverage check runs
MinCoverage(a, c) ==
    IF Truthy(a.interest_coverage)
    THEN Some(IF high_leverage_sector(a.sector) THEN c.min_interest_coverage_reit
              ELSE c.min_interest_coverage)
    ELSE None

\* --- Interest Coverage Check ---
CoverageCheck(a, c) ==
    IF Truthy(a.interest_coverage)
    THEN LET v == Val(a.interest_coverage)
             min_coverage == Val(MinCoverage(a, c))
         IN  IF v < min_coverage
             THEN Outcome(0, << Flag(FlagLowCoverage, v, 1) >>)
             ELSE Outcome(2, << >>)
    ELSE Outcome(0, << >>)

\* --- Debt-to-Equity Check ---
DebtCheck(a, c) ==
    IF Truthy(a.debt_to_equity)
    THEN LET d == Val(a.debt_to_equity)
         IN  IF ~high_leverage_sector(a.sector) /\ d > c.max_debt_to_equity
             THEN Outcome(0, << Flag(FlagHighDebt, d, 2) >>)
             ELSE IF d < 500
                  THEN Outcome(2, << >>)
                  ELSE Outcome(1, << >>)
    ELSE Outcome(0, << >>)

\* --- ROIC/ROE Check ---
ReturnCheck(a, c) ==
    IF Truthy(a.roic) /\ Val(a.roic) >= c.min_roic
    THEN Outcome(2, << >>)
    ELSE IF Truthy(a.roe) /\ Val(a.roe) >= c.min_roe
         THEN Outcome(1, << >>)
         ELSE IF Truthy(a.roe) /\ Val(a.roe) < 10 * Scale
              THEN Outcome(0, << Flag(FlagLowROE, Val(a.roe), 1) >>)
              ELSE Outcome(0, << >>)

\* --- Valuation Check ---
ValuationCheck(a, c) ==
    IF Truthy(a.pe_ratio)
    THEN LET pe == Val(a.pe_ratio)
         IN  IF pe > c.max_pe_ratio
             THEN Outcome(0, << Flag(FlagHighPE, pe, 1) >>)
             ELSE IF pe < 15 * Scale
                  THEN Outcome(2, << >>)
                  ELSE Outcome(1, << >>)
    ELSE Outcome(0, << >>)

\* --- Expected Return Check ---
ExpectedReturnCheck(a, c) ==
    IF Truthy(a.expected_return)
    THEN LET er == Val(a.expected_return)
         IN  IF er >= c.min_expected_return
             THEN Outcome(2, << >>)
             ELSE IF er >= 6 * Scale
                  THEN Outcome(1, << >>)
                  ELSE Outcome(0, << >>)
    ELSE Outcome(0, << >>)

\* the eight checks in the order screen_stock runs them
Checks(a, c) ==
    << YieldCheck(a, c), PayoutCheck(a, c), GrowthCheck(a, c), CoverageCheck(a, c),
       DebtCheck(a, c), ReturnCheck(a, c), ValuationCheck(a, c),
       ExpectedReturnCheck(a, c) >>

RECURSIVE TotalScore(_)
TotalScore(outcomes) ==
    IF outcomes = << >> THEN 0
    ELSE Head(outcomes).score + TotalScore(Tail(outcomes))

RECURSIVE AllFlags(_)
AllFlags(outcomes) ==
    IF outcomes = << >> THEN << >>
    ELSE Head(outcomes).flags \o AllFlags(Tail(outcomes))

\* 'WARNING' in f or 'AT RISK' in f
Disqualifying(f) == Contains(f.text, STR_WARNING) \/ Contains(f.text, STR_AT_RISK)

\* mutant of PassVerdict: the flags are not consulted
PassVerdictScoreOnly(score, flags) == score >= 8

\* score >= 8 and len([f for f in flags if ...]) == 0
PassVerdict(score, flags) == score >= 8 /\ Len(SelectSeq(flags, Disqualifying)) = 0

\* mutant of screen_stock: score and flags start from those of the analysis
screen_stock_accumulating(a, c) ==
    LET outcomes == Checks(a, c)
        score == a.score + TotalScore(outcomes)
        flags == a.flags \o AllFlags(outcomes)
    IN  [ a EXCEPT !.score = score,
                   !.flags = flags,
                   !.passes_screen = PassVerdict(score, flags) ]

\* screen_stock(analysis, criteria): the analysis with score, flags and
\* passes_screen assigned
screen_stock(a, c) ==
    LET outcomes == Checks(a, c)
        score == TotalScore(outcomes)
        flags == AllFlags(outcomes)
    IN  [ a EXCEPT !.score = score,
                   !.flags = flags,
                   !.passes_screen = PassVerdict(score, flags) ]

\* the local variables screen_stock leaves behind
ScreenStockLocals(a, c) ==
    [ high_leverage_sector |-> high_leverage_sector(a.sector),
      max_payout           |-> MaxPayout(a, c),
      min_coverage         |-> MinCoverage(a, c) ]

-----------------------------------------------------------------------------
(* screen_stocks *)

\* '; '.join(analysis.flags) if analysis.flags else '': the flags in order,
\* a separator between neighbours
RECURSIVE JoinFlags(_)
JoinFlags(flags) ==
    IF Len(flags) <= 1 THEN flags
    ELSE << Head(flags), PlainFlag(STR_Sep) >> \o JoinFlags(Tail(flags))

\* the dict screen_stocks appends to results for a screened analysis
Row(a) ==
    [ Ticker         |-> a.ticker,
      Name           |-> a.name,
      Sector         |-> a.sector,
      Score          |-> a.score,
      Pass           |-> a.passes_screen,
      DivYield       |-> a.dividend_yield,
      PayoutRatio    |-> a.payout_ratio,
      DivGrowth5Y    |-> a.dividend_growth_5yr,
      InterestCov    |-> a.interest_coverage,
      DebtEquity     |-> a.debt_to_equity,
      ROIC           |-> a.roic,
      ROE            |-> a.roe,
      PE             |-> a.pe_ratio,
      ExpectedReturn |-> a.expected_return,
      Flags          |-> JoinFlags(a.flags) ]

RowOrders(n) == { p \in [1..n -> 1..n] : \A i, j \in 1..n : p[i] = p[j] => i = j }

\* df.sort_values('Score', ascending=False): the rows in some order of
\* non-increasing Score (the order among equal scores is the sort's choice)
SortedByScore(rows) ==
    { [ i \in 1..Len(rows) |-> rows[p[i]] ] : p \in
        { q \in RowOrders(Len(rows)) :
            \A i \in 1..(Len(rows) - 1) : rows[q[i]].Score >= rows[q[i + 1]].Score } }

\* mutant of AfterFailed: a failed ticker is fetched again
AfterFailedRetry(i) == i

\* the loop position after the ticker at position i was skipped as failed
AfterFailed(i) == i + 1

\* the loop position after the ticker at position i was reported
AfterReported(i) == i + 1

-----------------------------------------------------------------------------
(* Bounds and input sets *)

\* the longest ticker list screened
MaxTickers == 3

\* how many times one analysis is passed to screen_stock
MaxScreens == 2

TickerSymbols == { "JNJ", "KO" }

TickerLists == UNION { [1..n -> TickerSymbols] : n \in 0..MaxTickers }

Sectors ==
    { SectorConsumerStaples, SectorRegulatedElectric, STR_RealEstate,
      SectorEquityREITs, SectorPublicUtilities, STR_Unknown }

\* the defaults, the values --min-yield/--max-pe/--min-roic can override, and
\* a criteria object built with high payout ceilings
CriteriaInputs ==
    { ScreeningCriteria,
      [ ScreeningCriteria EXCEPT !.min_dividend_yield = 0,
                               !.max_pe_ratio = 18 * Scale,
                               !.min_roic = 16 * Scale ],
      [ ScreeningCriteria EXCEPT !.max_payout_ratio = 93 * Scale,
                               !.max_payout_ratio_reit = 97 * Scale ] }

\* the fields of ScreeningCriteria that --min-yield, --max-pe and --min-roic,
\* and the three prompts of interactive_mode, assign
OverridableFields == { "min_dividend_yield", "max_pe_ratio", "min_roic" }

\* a ScreeningCriteria the program can run with: the defaults in every field
\* that has no option and no prompt
ProgramCriteria(c) ==
    \A f \in (DOMAIN ScreeningCriteria) \ OverridableFields : c[f] = ScreeningCriteria[f]

Opt(values) == { None } \cup { Some(v) : v \in values }

YieldValues == Opt({ 0, 1000, 3000, 9000 })

PayoutValues == Opt({ 0, 40000, 60000, 91000, 95000, 99000 })

GrowthValues == Opt({ 0, -2000, 7000, 12000 })

CoverageValues == Opt({ 0, 3000, 6000, 12000 })

DebtValues == Opt({ 0, 300, 800, 1500 })

RoicValues == Opt({ 5000, 15000 })

RoeValues == Opt({ 5000, 12000, 20000 })

PeValues == Opt({ 10000, 20000, 30000 })

ExpectedReturnValues == Opt({ 4000, 7000, 10000 })

\* three analyses to vary: no metric known, a middling stock, a strong stock
BaseAnalyses ==
    { StockAnalysis("JNJ", "Johnson & Johnson", s) : s \in Sectors }
    \cup
    { [ StockAnalysis("KO", "Coca-Cola", s) EXCEPT
          !.interest_coverage = Some(12000), !.debt_to_equity = Some(800),
          !.roe = Some(20000), !.pe_ratio = Some(20000),
          !.expected_return = Some(7000) ] : s \in Sectors }
    \cup
    { [ StockAnalysis("PG", "Procter & Gamble", s) EXCEPT
          !.dividend_yield = Some(3000), !.payout_ratio = Some(40000),
          !.dividend_growth_5yr = Some(12000), !.interest_coverage = Some(12000),
          !.debt_to_equity = Some(300), !.roic = Some(15000), !.roe = Some(20000),
          !.pe_ratio = Some(10000), !.expected_return = Some(10000) ] : s \in Sectors }

\* the analyses screen_stock is applied to: each base analysis with one group
\* of metrics (dividend, balance sheet, profitability, valuation) taking every
\* combination of values
AnalysisInputs ==
    { [ b EXCEPT !.dividend_yield = y, !.payout_ratio = p, !.dividend_growth_5yr = g ] :
        b \in BaseAnalyses, y \in YieldValues, p \in PayoutValues, g \in GrowthValues }
    \cup
    { [ b EXCEPT !.interest_coverage = v, !.debt_to_equity = d ] :
        b \in BaseAnalyses, v \in CoverageValues, d \in DebtValues }
    \cup
    { [ b EXCEPT !.roic = r, !.roe = e ] :
        b \in BaseAnalyses, r \in RoicValues, e \in RoeValues }
    \cup
    { [ b EXCEPT !.pe_ratio = pe, !.expected_return = er ] :
        b \in BaseAnalyses, pe \in PeValues, er \in ExpectedReturnValues }

\* stock.dividends: the distributions of each calendar year, oldest first, or
\* an exception
DividendHistories ==
    { [raises |-> TRUE, years |-> << >>],
      [raises |-> FALSE, years |-> << >>],
      [raises |-> FALSE, years |-> << <<500, 500>>, <<1000>>, <<1200>> >>],
      [raises |-> FALSE, years |-> << <<1000>>, <<1000>>, <<1000>>, <<1000>>, <<1000>> >>],
      [raises |-> FALSE, years |-> << <<500, 500>>, <<1000>>, <<1000>>, <<1000>>, <<1000, 1000>> >>],
      [raises |-> FALSE, years |-> << <<1000>>, <<250, 250>>, <<1000>>, << >>, <<1000>>, <<400>> >>],
      [raises |-> FALSE, years |-> << <<0>>, <<1000>>, <<1000>>, <<1000>>, <<1000>> >>] }

\* stock.financials: an exception, None, an empty frame, or a frame whose
\* most recent column may hold EBIT and Interest Expense
Financials ==
    { [raises |-> TRUE, missing |-> FALSE, empty |-> FALSE, EBIT |-> None, InterestExpense |-> None],
      [raises |-> FALSE, missing |-> TRUE, empty |-> FALSE, EBIT |-> None, InterestExpense |-> None],
      [raises |-> FALSE, missing |-> FALSE, empty |-> TRUE, EBIT |-> None, InterestExpense |-> None] }
    \cup
    { [raises |-> FALSE, missing |-> FALSE, empty |-> FALSE, EBIT |-> e, InterestExpense |-> i] :
        e \in Opt({ 0, -100000, 500000 }), i \in Opt({ 0, -10000, 50000 }) }

\* the fields get_stock_data copies or only scales: none known, or all known
PassThrough ==
    { [ sector |-> None, currentRatio |-> None, returnOnEquity |-> None,
        profitMargins |-> None, trailingPE |-> None, forwardPE |-> None,
        priceToBook |-> None ],
      [ sector |-> Some(SectorRegulatedElectric), currentRatio |-> Some(1500),
        returnOnEquity |-> Some(200), profitMargins |-> Some(150),
        trailingPE |-> Some(14000), forwardPE |-> Some(13000),
        priceToBook |-> Some(3000) ] }

\* a provider answer that carries a company name
Info(pt, dy, pr, divs, de, fin, roa, eg) ==
    [ raises         |-> FALSE,
      shortName      |-> Some("Acme Corp"),
      sector         |-> pt.sector,
      dividendYield  |-> dy,
      payoutRatio    |-> pr,
      dividends      |-> divs,
      debtToEquity   |-> de,
      currentRatio   |-> pt.currentRatio,
      financials     |-> fin,
      returnOnEquity |-> pt.returnOnEquity,
      returnOnAssets |-> roa,
      profitMargins  |-> pt.profitMargins,
      trailingPE     |-> pt.trailingPE,
      forwardPE      |-> pt.forwardPE,
      priceToBook    |-> pt.priceToBook,
      earningsGrowth |-> eg ]

\* the provider answers get_stock_data derives metrics from
InfoInputs ==
    { Info(pt, dy, pr, divs, de, fin, roa, eg) :
        pt \in PassThrough, dy \in Opt({ 0, 3000 }), pr \in Opt({ 0, 400 }),
        divs \in DividendHistories, de \in Opt({ 0, 50000, 150000 }),
        fin \in Financials, roa \in Opt({ 0, 100 }), eg \in Opt({ 0, 50 }) }

EmptyInfo ==
    [ Info(CHOOSE pt \in PassThrough : IsNone(pt.sector), None, None,
           [raises |-> FALSE, years |-> << >>], None,
           CHOOSE f \in Financials : f.missing, None, None)
      EXCEPT !.shortName = None ]

\* what the provider may answer a ticker of the screened list: an exception,
\* an empty dict, and two companies
ProviderAnswers ==
    { [ EmptyInfo EXCEPT !.raises = TRUE ],
      EmptyInfo,
      Info(CHOOSE pt \in PassThrough : ~IsNone(pt.sector), Some(3000), Some(400),
           CHOOSE d \in DividendHistories : ~d.raises /\ Len(d.years) = 5 /\ Len(d.years[5]) = 2,
           Some(50000),
           CHOOSE f \in Financials : f.EBIT = Some(500000) /\ f.InterestExpense = Some(-10000),
           Some(100), Some(50)),
      Info(CHOOSE pt \in PassThrough : IsNone(pt.sector), Some(9000), Some(950),
           CHOOSE d \in DividendHistories : ~d.raises /\ Len(d.years) = 6,
           Some(150000),
           CHOOSE f \in Financials : f.EBIT = Some(-100000) /\ f.InterestExpense = Some(50000),
           None, None) }

-----------------------------------------------------------------------------
(* The run of screen_stocks *)

\* results = [] and the for loop at its first ticker
Init ==
    /\ tickers \in TickerLists
    /\ criteria = ScreeningCriteria
    /\ idx = 1
    /\ pc = "call"
    /\ info = None
    /\ analysis = None
    /\ locals = None
    /\ results = << >>
    /\ df = None
    /\ log = << >>
    /\ watchfile = None
    /\ loaded = None

\* get_stock_data, the provider call: yf.Ticker(ticker).info answers (or
\* raises); without a company name the function returns None
Fetch ==
    /\ pc = "call"
    /\ idx <= Len(tickers)
    /\ \E r \in ProviderAnswers :
        /\ info' = Some(r)
        /\ pc' = IF FetchFails(r) THEN "failed" ELSE "derive"
    /\ analysis' = None
    /\ locals' = None
    /\ log' = Append(log, << "fetch", idx >>)
    /\ UNCHANGED << tickers, criteria, idx, results, df, watch >>

\* screen_stocks, `else: print("Failed")': the ticker is skipped
SkipFailed ==
    /\ pc = "failed"
    /\ idx' = AfterFailed(idx)
    /\ pc' = "call"
    /\ log' = Append(log, << "failed", idx >>)
    /\ UNCHANGED << tickers, criteria, info, analysis, locals, results, df, watch >>

\* get_stock_data, the derivation of the metrics from the provider's answer
Derive ==
    /\ pc = "derive"
    /\ analysis' = Some(get_stock_data(tickers[idx], Val(info)))
    /\ pc' = "screen"
    /\ log' = Append(log, << "derive", idx >>)
    /\ UNCHANGED << tickers, criteria, idx, info, locals, results, df, watch >>

\* analysis = screen_stock(analysis, criteria), called under `if analysis:', so
\* the `if analysis is None: return None' of screen_stock is never taken
ScreenStock ==
    /\ pc = "screen"
    /\ analysis' = Some(screen_stock(Val(analysis), criteria))
    /\ locals' = Some(ScreenStockLocals(Val(analysis), criteria))
    /\ pc' = "report"
    /\ log' = Append(log, << "screen", idx >>)
    /\ UNCHANGED << tickers, criteria, idx, info, results, df, watch >>

\* print_analysis(analysis) and results.append({...})
Report ==
    /\ pc = "report"
    /\ results' = Append(results, Row(Val(analysis)))
    /\ idx' = AfterReported(idx)
    /\ pc' = "call"
    /\ log' = Append(log, << "report", idx >>)
    /\ UNCHANGED << tickers, criteria, info, analysis, locals, df, watch >>

\* the loop is exhausted: df = pd.DataFrame(results), sorted by Score when
\* not empty, is returned
Finish ==
    /\ pc = "call"
    /\ idx > Len(tickers)
    /\ \E t \in SortedByScore(results) : df' = Some(t)
    /\ pc' = "done"
    /\ UNCHANGED << tickers, criteria, idx, info, analysis, locals, results, log, watch >>

Next == Fetch \/ SkipFailed \/ Derive \/ ScreenStock \/ Report \/ Finish

Spec == Init /\ [][Next]_vars

\* the provider answers every call and the interpreter keeps running
FairSpec == Spec /\ WF_vars(Next)

-----------------------------------------------------------------------------
(* screen_stock applied to every analysis and criteria of the input sets *)

ScreenInit ==
    /\ criteria \in CriteriaInputs
    /\ idx = 1
    /\ pc = "screen"
    /\ info = None
    /\ \E a \in AnalysisInputs :
        /\ analysis = Some(a)
        /\ tickers = << a.ticker >>
    /\ locals = None
    /\ results = << >>
    /\ df = None
    /\ log = << >>
    /\ watchfile = None
    /\ loaded = None

ScreenSpec == ScreenInit /\ [][ScreenStock]_vars

-----------------------------------------------------------------------------
(* get_stock_data applied to every provider answer of the input sets *)

DeriveInit ==
    /\ tickers = << "JNJ" >>
    /\ criteria = ScreeningCriteria
    /\ idx = 1
    /\ pc = "derive"
    /\ info \in { Some(r) : r \in InfoInputs }
    /\ analysis = None
    /\ locals = None
    /\ results = << >>
    /\ df = None
    /\ log = << >>
    /\ watchfile = None
    /\ loaded = None

DeriveSpec == DeriveInit /\ [][Derive]_vars

-----------------------------------------------------------------------------
(* screen_stock called on an analysis that already holds a score *)

\* the score, flags and verdict an analysis may hold before the call: those of
\* the constructor, or those left by an earlier screening
PriorOutputs ==
    { [ score |-> 0, flags |-> << >>, passes_screen |-> FALSE ],
      [ score |-> 9, flags |-> << PlainFlag(FlagNoDividend) >>, passes_screen |-> TRUE ] }

RescreenInit ==
    /\ criteria \in CriteriaInputs
    /\ idx = 1
    /\ pc = "screen"
    /\ info = None
    /\ \E a \in AnalysisInputs, o \in PriorOutputs :
        /\ analysis = Some([ a EXCEPT !.score = o.score,
                                      !.flags = o.flags,
                                      !.passes_screen = o.passes_screen ])
        /\ tickers = << a.ticker >>
    /\ locals = None
    /\ results = << >>
    /\ df = None
    /\ log = << >>
    /\ watchfile = None
    /\ loaded = None

\* screen_stock(analysis, criteria) on the analysis an earlier call returned
Rescreen ==
    /\ pc = "report"
    /\ Len(log) < MaxScreens
    /\ analysis' = Some(screen_stock(Val(analysis), criteria))
    /\ locals' = Some(ScreenStockLocals(Val(analysis), criteria))
    /\ log' = Append(log, << "screen", idx >>)
    /\ UNCHANGED << tickers, criteria, idx, pc, info, results, df, watch >>

RescreenSpec == RescreenInit /\ [][ScreenStock \/ Rescreen]_vars

-----------------------------------------------------------------------------
(* save_watchlist and load_watchlist *)

\* "# Stock Watchlist"
HeaderTitle ==
    << "#", " ", "S", "t", "o", "c", "k", " ", "W", "a", "t", "c", "h", "l", "i", "s", "t" >>
\* "# Generated on "
HeaderGenerated ==
    << "#", " ", "G", "e", "n", "e", "r", "a", "t", "e", "d", " ", "o", "n", " " >>

NL == << "\n" >>

\* pd.Timestamp.now().strftime('%Y-%m-%d %H:%M:%S'): what the clock may give
Timestamps ==
    { << "2", "0", "2", "4", "-", "0", "1", "-", "3", "1", " ", "0", "9", ":", "3", "0", ":", "0", "0" >>,
      << "2", "0", "2", "6", "-", "1", "1", "-", "0", "2", " ", "2", "3", ":", "5", "9", ":", "5", "9" >> }

\* the characters str.strip and str.split take for whitespace
IsSpace(ch) == ch \in { " ", "\t", "\n", "\r" }

LowerCase ==
    << "a", "b", "c", "d", "e", "f", "g", "h", "i", "j", "k", "l", "m", "n", "o", "p", "q", "r", "s", "t", "u", "v", "w", "x", "y", "z" >>

UpperCase ==
    << "A", "B", "C", "D", "E", "F", "G", "H", "I", "J", "K", "L", "M", "N", "O", "P", "Q", "R", "S", "T", "U", "V", "W", "X", "Y", "Z" >>

\* str.upper, one character
Upper(ch) ==
    IF \E i \in 1..Len(LowerCase) : LowerCase[i] = ch
    THEN UpperCase[CHOOSE i \in 1..Len(LowerCase) : LowerCase[i] = ch]
    ELSE ch

\* str.upper
UpperStr(str) == [ i \in 1..Len(str) |-> Upper(str[i]) ]

\* str.lstrip
RECURSIVE LStrip(_)
LStrip(str) ==
    IF str # << >> /\ IsSpace(Head(str)) THEN LStrip(Tail(str)) ELSE str

\* str.rstrip
RECURSIVE RStrip(_)
RStrip(str) ==
    IF str # << >> /\ IsSpace(str[Len(str)])
    THEN RStrip(SubSeq(str, 1, Len(str) - 1)) ELSE str

\* str.strip
Strip(str) == RStrip(LStrip(str))

\* str.startswith
StartsWith(str, prefix) ==
    Len(str) >= Len(prefix) /\ SubSeq(str, 1, Len(prefix)) = prefix

\* line.split()[0] of a stripped, non-empty line: up to the first whitespace
RECURSIVE FirstWord(_)
FirstWord(str) ==
    IF str = << >> \/ IsSpace(Head(str)) THEN << >>
    ELSE << Head(str) >> \o FirstWord(Tail(str))

\* `for line in f': the text cut after each newline
RECURSIVE FileLines(_)
FileLines(text) ==
    IF text = << >> THEN << >>
    ELSE IF \E i \in 1..Len(text) : text[i] = "\n"
         THEN LET i == CHOOSE k \in 1..Len(text) :
                         text[k] = "\n" /\ \A j \in 1..(k - 1) : text[j] # "\n"
              IN  << SubSeq(text, 1, i) >> \o FileLines(SubSeq(text, i + 1, Len(text)))
         ELSE << text >>

\* the loop of save_watchlist: f.write(f"{ticker}\n") for each ticker
RECURSIVE TickerLines(_)
TickerLines(list) ==
    IF list = << >> THEN << >>
    ELSE Head(list) \o NL \o TickerLines(Tail(list))

\* the text save_watchlist writes: two comment lines, a blank line, the tickers
save_watchlist(list, timestamp) ==
    HeaderTitle \o NL \o HeaderGenerated \o timestamp \o NL \o NL \o TickerLines(list)

\* the loop of load_watchlist over the lines of the file
RECURSIVE TickersOfLines(_)
TickersOfLines(lines) ==
    IF lines = << >> THEN << >>
    ELSE LET line == Strip(Head(lines))
         IN  (IF line # << >> /\ ~StartsWith(line, << "#" >>)
              THEN << UpperStr(FirstWord(line)) >> ELSE << >>)
             \o TickersOfLines(Tail(lines))

\* mutant of load_watchlist: comment lines are not skipped
load_watchlist_keeping_comments(text) ==
    LET RECURSIVE All(_)
        All(lines) ==
            IF lines = << >> THEN << >>
            ELSE LET line == Strip(Head(lines))
                 IN  (IF line # << >> THEN << UpperStr(FirstWord(line)) >> ELSE << >>)
                     \o All(Tail(lines))
    IN  All(FileLines(text))

\* the list load_watchlist returns for a file holding `text'
load_watchlist(text) == TickersOfLines(FileLines(text))

\* the ticker strings saved: symbols in either case, one with a space in it,
\* one starting with '#', one with '#' inside, and the empty string
WatchTickers ==
    { << "K", "O" >>,
      << "j", "n", "j" >>,
      << "B", "r", "k", " ", "b" >>,
      << "#", "x" >>,
      << "t", "#" >>,
      << >> }

WatchLists == UNION { [1..n -> WatchTickers] : n \in 0..MaxTickers }

WatchInit ==
    /\ tickers \in WatchLists
    /\ criteria = ScreeningCriteria
    /\ idx = 1
    /\ pc = "save"
    /\ info = None
    /\ analysis = None
    /\ locals = None
    /\ results = << >>
    /\ df = None
    /\ log = << >>
    /\ watchfile = None
    /\ loaded = None

\* save_watchlist(tickers, filename): the file is written
SaveWatchlist ==
    /\ pc = "save"
    /\ \E t \in Timestamps : watchfile' = Some(save_watchlist(tickers, t))
    /\ pc' = "load"
    /\ UNCHANGED << tickers, criteria, idx, info, analysis, locals, results, df, log, loaded >>

\* save_watchlist, `except Exception: ... sys.exit(1)': the file cannot be
\* written and the program ends
SaveWatchlistFails ==
    /\ pc = "save"
    /\ pc' = "exit"
    /\ UNCHANGED << tickers, criteria, idx, info, analysis, locals, results, df, log, watch >>

\* load_watchlist(filename) on the file written
LoadWatchlist ==
    /\ pc = "load"
    /\ loaded' = Some(load_watchlist(Val(watchfile)))
    /\ pc' = "loaded"
    /\ UNCHANGED << tickers, criteria, idx, info, analysis, locals, results, df, log, watchfile >>

WatchSpec == WatchInit /\ [][SaveWatchlist \/ SaveWatchlistFails \/ LoadWatchlist]_vars

-----------------------------------------------------------------------------
(* Properties of screen_stock, checked under ScreenSpec *)

\* the analysis screen_stock returned
Screened == Val(analysis)

HasFlag(a, text) == \E i \in 1..Len(a.flags) : a.flags[i].text = text

\* what one metric's check added to the score: the score, less the score of
\* the same analysis with that metric (given as a changed analysis) removed
Added(a, without) == a.score - screen_stock(without, criteria).score

\* C1: after screen_stock, passes_screen is true exactly when the score is at
\* least 8 and no flag contains "WARNING" or "AT RISK".
C1_PassVerdict ==
    pc = "report" =>
        ( Screened.passes_screen
          <=> /\ Screened.score >= 8
              /\ \A i \in 1..Len(Screened.flags) :
                    /\ ~Contains(Screened.flags[i].text, STR_WARNING)
                    /\ ~Contains(Screened.flags[i].text, STR_AT_RISK) )

\* C1 witness: a screened stock with score 9 and the yield-trap WARNING flag,
\* which does not pass.
C1_Witness ==
    /\ pc = "report"
    /\ Screened.score = 9
    /\ HasFlag(Screened, FlagYieldTrap)
    /\ ~Screened.passes_screen

AllMetricsAbsent(a) ==
    /\ IsNone(a.dividend_yield) /\ IsNone(a.payout_ratio)
    /\ IsNone(a.dividend_growth_5yr) /\ IsNone(a.interest_coverage)
    /\ IsNone(a.debt_to_equity) /\ IsNone(a.current_ratio)
    /\ IsNone(a.roic) /\ IsNone(a.roe) /\ IsNone(a.profit_margin)
    /\ IsNone(a.pe_ratio) /\ IsNone(a.forward_pe) /\ IsNone(a.price_to_book)
    /\ IsNone(a.expected_return)

\* C2: an analysis whose metrics are all None is screened to score 0, not
\* passing, with the flag "No dividend data", in every sector and under every
\* criteria.
C2_AllAbsent ==
    (pc = "report" /\ AllMetricsAbsent(Screened)) =>
        /\ Screened.score = 0
        /\ ~Screened.passes_screen
        /\ HasFlag(Screened, FlagNoDividend)

\* C2 witness: an all-absent analysis of a high-leverage sector screened under
\* criteria other than the defaults.
C2_Witness ==
    /\ pc = "report"
    /\ AllMetricsAbsent(Screened)
    /\ Screened.sector = SectorRegulatedElectric
    /\ criteria # ScreeningCriteria
    /\ Screened.flags = << PlainFlag(FlagNoDividend) >>

\* the payout ceiling the claims name for a sector
CeilingFor(a) ==
    IF Contains(a.sector, STR_REIT) \/ Contains(a.sector, STR_RealEstate)
       \/ Contains(a.sector, STR_Utilities)
    THEN criteria.max_payout_ratio_reit ELSE criteria.max_payout_ratio

\* C3: every present payout ratio has exactly one effect: above the sector's
\* ceiling only the "High payout ratio" flag; otherwise above 90 the
\* "DIVIDEND AT RISK" flag; otherwise +2 score and no payout flag.
C3_PayoutEffects ==
    (pc = "report" /\ ~IsNone(Screened.payout_ratio)) =>
        LET p == Val(Screened.payout_ratio)
            added == Added(Screened, [Screened EXCEPT !.payout_ratio = None])
        IN  IF p > CeilingFor(Screened)
            THEN HasFlag(Screened, FlagHighPayout) /\ ~HasFlag(Screened, FlagAtRisk)
                 /\ added = 0
            ELSE IF p > 90 * Scale
                 THEN HasFlag(Screened, FlagAtRisk) /\ ~HasFlag(Screened, FlagHighPayout)
                      /\ added = 0
                 ELSE ~HasFlag(Screened, FlagAtRisk) /\ ~HasFlag(Screened, FlagHighPayout)
                      /\ added = 2

\* C4: "No dividend data" is flagged exactly when dividend_yield is None; a
\* present yield, 0 included, goes through the yield rules, so a yield of 0
\* under a positive minimum gets the low-yield flag.
C4_NoDividendOnlyWhenAbsent ==
    pc = "report" =>
        /\ HasFlag(Screened, FlagNoDividend) <=> IsNone(Screened.dividend_yield)
        /\ ( /\ Screened.dividend_yield = Some(0)
             /\ criteria.min_dividend_yield > 0 )
           => HasFlag(Screened, FlagLowYield)

\* C5: a stock is high-leverage exactly when its sector contains "REIT",
\* "Real Estate" or "Utilities"; exactly then the payout check runs against
\* max_payout_ratio_reit and the coverage check against
\* min_interest_coverage_reit, and otherwise against max_payout_ratio and
\* min_interest_coverage.
C5_SectorThresholds ==
    pc = "report" =>
        LET a == Screened
            l == Val(locals)
            high == Contains(a.sector, STR_REIT) \/ Contains(a.sector, STR_RealEstate)
                    \/ Contains(a.sector, STR_Utilities)
            ceiling == IF high THEN criteria.max_payout_ratio_reit
                       ELSE criteria.max_payout_ratio
            floor == IF high THEN criteria.min_interest_coverage_reit
                     ELSE criteria.min_interest_coverage
        IN  /\ l.high_leverage_sector = high
            /\ a.sector = SectorRegulatedElectric => l.high_leverage_sector
            /\ a.sector = SectorConsumerStaples => ~l.high_leverage_sector
            /\ ~IsNone(l.max_payout) =>
                  /\ l.max_payout = Some(ceiling)
                  /\ HasFlag(a, FlagHighPayout) <=> Val(a.payout_ratio) > ceiling
            /\ ~IsNone(l.min_coverage) =>
                  /\ l.min_coverage = Some(floor)
                  /\ HasFlag(a, FlagLowCoverage) <=> Val(a.interest_coverage) < floor

\* C5 witness: a regulated electric utility with a payout ratio of 60%, above
\* the ordinary ceiling of 50% and below the REIT/utility ceiling of 85%, is
\* not flagged for its payout.
C5_Witness ==
    /\ pc = "report"
    /\ Screened.sector = SectorRegulatedElectric
    /\ criteria = ScreeningCriteria
    /\ Screened.payout_ratio = Some(60 * Scale)
    /\ Val(locals).max_payout = Some(85 * Scale)
    /\ ~HasFlag(Screened, FlagHighPayout)

\* C6: every present debt/equity has exactly one effect: outside the
\* high-leverage sectors a value above max_debt_to_equity is flagged and adds
\* nothing; otherwise a value below 0.5 adds 2 and any other value adds 1; a
\* high-leverage stock never gets the high debt/equity flag.
C6_DebtEffects ==
    (pc = "report" /\ ~IsNone(Screened.debt_to_equity)) =>
        LET d == Val(Screened.debt_to_equity)
            high == Contains(Screened.sector, STR_REIT)
                    \/ Contains(Screened.sector, STR_RealEstate)
                    \/ Contains(Screened.sector, STR_Utilities)
            added == Added(Screened, [Screened EXCEPT !.debt_to_equity = None])
        IN  /\ high => ~HasFlag(Screened, FlagHighDebt)
            /\ IF ~high /\ d > criteria.max_debt_to_equity
               THEN HasFlag(Screened, FlagHighDebt) /\ added = 0
               ELSE ~HasFlag(Screened, FlagHighDebt)
                    /\ added = (IF 2 * d < Scale THEN 2 ELSE 1)

-----------------------------------------------------------------------------
(* Properties of get_stock_data, checked under DeriveSpec *)

\* get_stock_data has derived the analysis from the provider's answer
Derived == pc = "screen" /\ ~IsNone(info) /\ ~IsNone(analysis)

\* C7: expected_return is yield + 5-year growth whenever both are known (a
\* known growth of 0 included); otherwise yield + earnings growth x 100 when
\* yield and earnings growth are known; otherwise None.  The earnings-growth
\* fallback is never used when the 5-year growth is known.
C7_ExpectedReturn ==
    Derived =>
        LET a == Val(analysis)
            eg == Val(info).earningsGrowth
        IN  a.expected_return =
                IF ~IsNone(a.dividend_yield) /\ ~IsNone(a.dividend_growth_5yr)
                THEN Some(Val(a.dividend_yield) + Val(a.dividend_growth_5yr))
                ELSE IF ~IsNone(a.dividend_yield) /\ ~IsNone(eg)
                     THEN Some(Val(a.dividend_yield) + Val(eg) * 100)
                     ELSE None

\* C8: interest coverage is EBIT / |Interest Expense| of the most recent
\* period, with the sign of EBIT; it is None exactly when EBIT or the interest
\* expense is missing or the interest expense is 0.
C8_InterestCoverage ==
    Derived =>
        LET f == Val(info).financials
            known == /\ ~f.raises /\ ~f.missing /\ ~f.empty
                     /\ ~IsNone(f.EBIT) /\ ~IsNone(f.InterestExpense)
                     /\ f.InterestExpense # Some(0)
        IN  Val(analysis).interest_coverage =
                IF known THEN Some(FDiv(Val(f.EBIT), Abs(Val(f.InterestExpense))))
                ELSE None

\* C9: with a known return on assets, ROIC is ROA x 100 x (1 + debt/equity)
\* x 0.8 whenever debt/equity is known (0 included), and ROA x 100 only when
\* debt/equity is unknown.
C9_Roic ==
    (Derived /\ ~IsNone(Val(info).returnOnAssets)) =>
        LET a == Val(analysis)
            pct == Val(Val(info).returnOnAssets) * 100
        IN  a.roic =
                IF ~IsNone(a.debt_to_equity)
                THEN Some((pct * (Scale + Val(a.debt_to_equity)) * 8) \div (Scale * 10))
                ELSE Some(pct)

-----------------------------------------------------------------------------
(* Properties of screen_stocks, checked under FairSpec *)

\* the positions of tickers whose step `kind' is in the log
Logged(kind) == { i \in 1..Len(tickers) : \E k \in 1..Len(log) : log[k] = << kind, i >> }

\* how often the step `kind' of position i is in the log
Times(kind, i) == Cardinality({ k \in 1..Len(log) : log[k] = << kind, i >> })

\* the tickers at the positions of `kept', in input order
RECURSIVE TickersAt(_, _)
TickersAt(i, kept) ==
    IF i > Len(tickers) THEN << >>
    ELSE (IF i \in kept THEN << tickers[i] >> ELSE << >>) \o TickersAt(i + 1, kept)

\* the steps run one ticker at a time, in input order: a fetch is followed by
\* the derivation or the skip of the same ticker, a derivation by its scoring,
\* a scoring by its report, and only a report or a skip by the fetch of the
\* next ticker
OneAtATime ==
    /\ log # << >> => log[1] = << "fetch", 1 >>
    /\ \A k \in 1..(Len(log) - 1) :
        LET step == log[k][1]
            i == log[k][2]
            next == log[k + 1]
        IN  /\ step = "fetch" => next \in { << "derive", i >>, << "failed", i >> }
            /\ step = "derive" => next = << "screen", i >>
            /\ step = "screen" => next = << "report", i >>
            /\ step \in { "report", "failed" } => next = << "fetch", i + 1 >>

\* the rows collected so far are those of the reported tickers, in order, and
\* a ticker is reported only if its fetch did not fail
RowsOfReported ==
    /\ [ j \in 1..Len(results) |-> results[j].Ticker ] = TickersAt(1, Logged("report"))
    /\ Logged("report") \cap Logged("failed") = { }
    /\ \A i \in 1..Len(tickers) : Times("fetch", i) <= 1

\* once returned: every ticker was fetched exactly once and either skipped or
\* reported, and the table has exactly the collected rows
Returned ==
    pc = "done" =>
        /\ \A i \in 1..Len(tickers) :
            /\ Times("fetch", i) = 1
            /\ Times("failed", i) + Times("report", i) = 1
        /\ Len(Val(df)) = Cardinality(Logged("report"))
        /\ \A r \in { results[j] : j \in 1..Len(results) } :
              Cardinality({ j \in 1..Len(results) : results[j] = r })
                = Cardinality({ j \in 1..Len(Val(df)) : Val(df)[j] = r })

\* C10: screen_stocks handles the tickers one at a time in input order, skips
\* a ticker whose fetch failed without stopping, attempts every ticker exactly
\* once, terminates, and returns one row per ticker fetched successfully and
\* none for a failed one.
C10_SequentialRun ==
    /\ [](OneAtATime /\ RowsOfReported /\ Returned)
    /\ <>(pc = "done")

\* C10 witness: a run over three tickers has returned; the fetch of the second
\* failed, the first and the third are in the table.
C10_Witness ==
    /\ pc = "done"
    /\ Len(tickers) = 3
    /\ Logged("failed") = { 2 }
    /\ Logged("report") = { 1, 3 }
    /\ Len(Val(df)) = 2

-----------------------------------------------------------------------------
(* Properties of the watchlist file, checked under WatchSpec *)

\* the tickers saved, upper-cased, in their order
UpperCased == [ i \in 1..Len(tickers) |-> UpperStr(tickers[i]) ]

\* a ticker the file format can hold: not empty, no whitespace in it, and not
\* starting with '#'
Storable(t) ==
    /\ t # << >>
    /\ \A i \in 1..Len(t) : ~IsSpace(t[i])
    /\ t[1] # "#"

\* C11 as stated: for any list of N tickers, load_watchlist after
\* save_watchlist returns exactly the N tickers, in order, upper-cased.
C11_RoundTripAnyList ==
    pc = "loaded" => Val(loaded) = UpperCased

\* C11 as amended: for any list of N tickers that are not empty, hold no
\* whitespace and do not start with '#', load_watchlist after save_watchlist
\* returns exactly the N tickers, in order, upper-cased; the two header
\* comment lines and the blank line are not in the result.
C11_RoundTrip ==
    (pc = "loaded" /\ \A i \in 1..Len(tickers) : Storable(tickers[i])) =>
        /\ Len(Val(loaded)) = Len(tickers)
        /\ Val(loaded) = UpperCased

\* C11 witness: three storable tickers, one in lower case and one with '#'
\* inside, were saved and read back.
C11_Witness ==
    /\ pc = "loaded"
    /\ Len(tickers) = 3
    /\ \A i \in 1..3 : Storable(tickers[i])
    /\ \E i \in 1..3 : tickers[i] # UpperStr(tickers[i])
    /\ \E i \in 1..3 : Contains(tickers[i], << "#" >>)
    /\ Len(Val(loaded)) = 3

-----------------------------------------------------------------------------
(* The frame of screen_stock, checked under RescreenSpec *)

\* the fields screen_stock assigns
OutputFields == { "score", "flags", "passes_screen" }

\* the identity and metric fields
InputFields == (DOMAIN StockAnalysis("", "", "")) \ OutputFields

Outputs(a) == << a.score, a.flags, a.passes_screen >>

\* the analysis as its constructor would have left score, flags and verdict
Unscreened(a) == [ a EXCEPT !.score = 0, !.flags = << >>, !.passes_screen = FALSE ]

\* score, flags and verdict computed from the sector, the metrics and the
\* criteria alone
OutputsFor(a, c) ==
    LET outcomes == Checks(Unscreened(a), c)
    IN  << TotalScore(outcomes), AllFlags(outcomes),
           PassVerdict(TotalScore(outcomes), AllFlags(outcomes)) >>

\* C12: every call of screen_stock leaves the identity fields, the metric
\* fields and the criteria as they were, sets score, flags and passes_screen
\* to values that depend only on sector, metrics and criteria (not on the
\* score, flags or verdict held before), and a second call on the analysis it
\* returned gives the same score, flags and verdict.
C12_ScreenStockFrame ==
    [][ LET before == Val(analysis)
            after  == Val(analysis')
        IN  /\ \A f \in InputFields : after[f] = before[f]
            /\ DOMAIN after = DOMAIN before
            /\ criteria' = criteria
            /\ Outputs(after) = OutputsFor(before, criteria)
            /\ (pc = "report" => Outputs(after) = Outputs(before)) ]_vars

\* C12 witness: an analysis with flags and a passing score has been screened
\* twice.
C12_Witness ==
    /\ pc = "report"
    /\ Len(log) = 2
    /\ Screened.flags # << >>
    /\ Screened.score >= 8
    /\ Screened.passes_screen

-----------------------------------------------------------------------------
(* The range of the score, checked under ScreenSpec *)

\* print_analysis: f"Score: {analysis.score}/15"
MaxDisplayedScore == 15

\* C13: the score screen_stock computes is an integer from 0 to 15, the
\* maximum print_analysis reports it against.
C13_ScoreRange ==
    pc = "report" =>
        /\ Screened.score \in Int
        /\ 0 <= Screened.score
        /\ Screened.score <= MaxDisplayedScore

-----------------------------------------------------------------------------
(* The payout check under the program's ceilings, checked under ScreenSpec *)

WithoutPayout(a) == [ a EXCEPT !.payout_ratio = None ]

DisqualifyingFlags(a) == SelectSeq(a.flags, Disqualifying)

\* C14: under criteria the program can run with (payout ceilings 50 and 85),
\* screen_stock never emits "DIVIDEND AT RISK"; a payout ratio above 90 gets
\* the "High payout ratio" flag instead, the payout check adds no
\* disqualifying flag, and so a stock whose score reaches 8 and whose other
\* checks raise no disqualifying flag passes whatever its payout ratio.
C14_NeverAtRisk ==
    (pc = "report" /\ ProgramCriteria(criteria)) =>
        /\ criteria.max_payout_ratio = 50 * Scale
        /\ criteria.max_payout_ratio_reit = 85 * Scale
        /\ ~HasFlag(Screened, FlagAtRisk)
        /\ ( (Screened.payout_ratio # None /\ Val(Screened.payout_ratio) > 90 * Scale)
               => HasFlag(Screened, FlagHighPayout) )
        /\ DisqualifyingFlags(Screened)
             = DisqualifyingFlags(screen_stock(WithoutPayout(Screened), criteria))
        /\ ( ( Screened.score >= 8
               /\ DisqualifyingFlags(screen_stock(WithoutPayout(Screened), criteria)) = << >> )
               => Screened.passes_screen )

\* C14 witness: a utility with payout ratio 95, above the ceiling of 85 and
\* above 90, screened under the program's ceilings: it is flagged "High payout
\* ratio" and passes.
C14_Witness ==
    /\ pc = "report"
    /\ ProgramCriteria(criteria)
    /\ is_utility(Screened.sector)
    /\ Screened.payout_ratio = Some(95 * Scale)
    /\ HasFlag(Screened, FlagHighPayout)
    /\ Screened.passes_screen

====
